---------------------------- MODULE Spec2Model ----------------------------
(***************************************************************************)
(* A model of monolith's asset resolution and rendering engine:            *)
(*   src/src/asset.rs                     Asset, Resource, download_complete*)
(*   src/src/resources/demo_resource.rs   DemoResource  (TextLinkResource) *)
(*   src/src/resources/inert_resource.rs  InertResource (PassthroughResource)*)
(*   src/src/util.rs                      detect_mimetype, data_to_dataurl *)
(*   src/src/lib.rs                       download_complete_page           *)
(*                                                                         *)
(* Byte buffers and strings are sequences of byte values 0..255.  An       *)
(* Option<T> is a sequence of length 0 (None) or 1 (Some).  The asset tree *)
(* is a function from node identifiers to Asset records; the identifier of *)
(* a node is the sequence of child indices leading to it from the root, so *)
(* the i-th entry of a DemoResource's `resources` vector at node n is the  *)
(* Asset at node Append(n, i).                                             *)
(***************************************************************************)
EXTENDS Integers, Sequences, FiniteSets, TLC

VARIABLES web, assets, inflight, pc, log, ret, calls

vars == <<web, assets, inflight, pc, log, ret, calls>>

(***************************************************************************)
(* Bounds of the model.                                                    *)
(***************************************************************************)
\* Deepest node the direct callers make a call on.
MaxDepth == 3
\* In a run of PrefixSpec the network has answered the requests of the nodes
\* less deep than this; the requests of the deeper nodes are pending.
MaxServed == 4
\* Longest text enumerated exhaustively over TextAlphabet.
MaxLen == 5
\* Most parse calls the API driver makes on one resource.
MaxParses == 2
\* Most GETs the direct caller of download lets one node issue.
MaxGets == 2

(***************************************************************************)
(* Byte values of the characters the code names.                           *)
(***************************************************************************)
SQ == 39
DQ == 34
LF == 10
SP == 32
SLASH == 47

None == <<>>
Some(v) == <<v>>
IsSome(o) == Len(o) = 1
Unwrap(o) == o[1]

\* The element of a one-element set.  The({e(x) : x \in {v}}) is e(v), with
\* v evaluated once however often e uses x.
The(S) == CHOOSE x \in S : TRUE

\* "text/plain"
TEXT_PLAIN == <<116, 101, 120, 116, 47, 112, 108, 97, 105, 110>>
\* "txt"
TXT == <<116, 120, 116>>
\* "data:"
DATA_COLON == <<100, 97, 116, 97, 58>>
\* ";base64,"
BASE64_COMMA == <<59, 98, 97, 115, 101, 54, 52, 44>>

(***************************************************************************)
(* Sequence helpers (slices of Rust strings and byte slices).              *)
(***************************************************************************)
\* s[a..b] with 0-based, end-exclusive offsets, as Rust ranges are.
Slice(s, a, b) == [i \in 1..(b - a) |-> s[a + i]]

StartsWith(s, p) == Len(p) <= Len(s) /\ \A i \in 1..Len(p) : s[i] = p[i]

EndsWith(s, p) ==
    Len(p) <= Len(s) /\ \A i \in 1..Len(p) : s[Len(s) - Len(p) + i] = p[i]

\* eq_ignore_ascii_case: compare with ASCII upper case folded to lower case.
AsciiLower(c) == IF c >= 65 /\ c <= 90 THEN c + 32 ELSE c

EqIgnoreAsciiCase(s, p) ==
    Len(s) = Len(p) /\ \A i \in 1..Len(s) : AsciiLower(s[i]) = AsciiLower(p[i])

(***************************************************************************)
(* Result<T>: Ok(v) or Err(e), e one of the variants of asset::Error       *)
(* ("HttpError", "ParseError", "MissingResource", "AssetUnloaded") or the  *)
(* "ResourceUnloaded" the two render methods name.                         *)
(***************************************************************************)
Ok(v) == [ok |-> TRUE, val |-> v, err |-> ""]
Err(e) == [ok |-> FALSE, val |-> <<>>, err |-> e]

(***************************************************************************)
(* util.rs                                                                 *)
(***************************************************************************)
MAGIC == <<
    \* 'GIF87a' -> image/gif
    <<<<71, 73, 70, 56, 55, 97>>,
      <<105, 109, 97, 103, 101, 47, 103, 105, 102>>>>,
    \* 'GIF89a' -> image/gif
    <<<<71, 73, 70, 56, 57, 97>>,
      <<105, 109, 97, 103, 101, 47, 103, 105, 102>>>>,
    \* '\xff\xd8\xff' -> image/jpeg
    <<<<255, 216, 255>>,
      <<105, 109, 97, 103, 101, 47, 106, 112, 101, 103>>>>,
    \* '\x89PNG\r\n\x1a\n' -> image/png
    <<<<137, 80, 78, 71, 13, 10, 26, 10>>,
      <<105, 109, 97, 103, 101, 47, 112, 110, 103>>>>,
    \* '<?xml ' -> image/svg+xml
    <<<<60, 63, 120, 109, 108, 32>>,
      <<105, 109, 97, 103, 101, 47, 115, 118, 103, 43, 120, 109, 108>>>>,
    \* '<svg ' -> image/svg+xml
    <<<<60, 115, 118, 103, 32>>,
      <<105, 109, 97, 103, 101, 47, 115, 118, 103, 43, 120, 109, 108>>>>,
    \* 'RIFF....WEBPVP8 ' -> image/webp
    <<<<82, 73, 70, 70, 46, 46, 46, 46, 87, 69, 66, 80, 86, 80, 56, 32>>,
      <<105, 109, 97, 103, 101, 47, 119, 101, 98, 112>>>>,
    \* '\x00\x00\x01\x00' -> image/x-icon
    <<<<0, 0, 1, 0>>,
      <<105, 109, 97, 103, 101, 47, 120, 45, 105, 99, 111, 110>>>>,
    \* 'ID3' -> audio/mpeg
    <<<<73, 68, 51>>,
      <<97, 117, 100, 105, 111, 47, 109, 112, 101, 103>>>>,
    \* '\xff\x0e' -> audio/mpeg
    <<<<255, 14>>,
      <<97, 117, 100, 105, 111, 47, 109, 112, 101, 103>>>>,
    \* '\xff\x0f' -> audio/mpeg
    <<<<255, 15>>,
      <<97, 117, 100, 105, 111, 47, 109, 112, 101, 103>>>>,
    \* 'OggS' -> audio/ogg
    <<<<79, 103, 103, 83>>,
      <<97, 117, 100, 105, 111, 47, 111, 103, 103>>>>,
    \* 'RIFF....WAVEfmt ' -> audio/wav
    <<<<82, 73, 70, 70, 46, 46, 46, 46, 87, 65, 86, 69, 102, 109, 116, 32>>,
      <<97, 117, 100, 105, 111, 47, 119, 97, 118>>>>,
    \* 'fLaC' -> audio/x-flac
    <<<<102, 76, 97, 67>>,
      <<97, 117, 100, 105, 111, 47, 120, 45, 102, 108, 97, 99>>>>,
    \* 'RIFF....AVI LIST' -> video/avi
    <<<<82, 73, 70, 70, 46, 46, 46, 46, 65, 86, 73, 32, 76, 73, 83, 84>>,
      <<118, 105, 100, 101, 111, 47, 97, 118, 105>>>>,
    \* '....ftyp' -> video/mp4
    <<<<46, 46, 46, 46, 102, 116, 121, 112>>,
      <<118, 105, 100, 101, 111, 47, 109, 112, 52>>>>,
    \* '\x00\x00\x01\x0b' -> video/mpeg
    <<<<0, 0, 1, 11>>,
      <<118, 105, 100, 101, 111, 47, 109, 112, 101, 103>>>>,
    \* '....moov' -> video/quicktime
    <<<<46, 46, 46, 46, 109, 111, 111, 118>>,
      <<118, 105, 100, 101, 111, 47, 113, 117, 105, 99, 107, 116, 105, 109, 101>>>>,
    \* '\x1aE\xdf\xa3' -> video/webm
    <<<<26, 69, 223, 163>>,
      <<118, 105, 100, 101, 111, 47, 119, 101, 98, 109>>>>
>>

\* The first entry of the table, in table order, whose bytes the data
\* starts with; "" when there is none.
detect_mimetype(data) ==
    LET hits == {i \in 1..Len(MAGIC) : StartsWith(data, MAGIC[i][1])}
    IN  IF hits = {} THEN <<>>
        ELSE MAGIC[CHOOSE i \in hits : \A j \in hits : i <= j][2]

\* The standard base64 alphabet, A-Z a-z 0-9 + /.
B64_ALPHABET == <<65, 66, 67, 68, 69, 70, 71, 72, 73, 74, 75, 76, 77, 78, 79,
    80, 81, 82, 83, 84, 85, 86, 87, 88, 89, 90, 97, 98, 99, 100, 101, 102,
    103, 104, 105, 106, 107, 108, 109, 110, 111, 112, 113, 114, 115, 116,
    117, 118, 119, 120, 121, 122, 48, 49, 50, 51, 52, 53, 54, 55, 56, 57,
    43, 47>>

B64Char(v) == B64_ALPHABET[v + 1]

\* base64::encode: each group of three bytes gives four characters of six
\* bits each; a last group of one or two bytes is padded with zero bits and
\* '=' (61).
encode(b) ==
    [j \in 1..(4 * ((Len(b) + 2) \div 3)) |->
        LET k  == (j - 1) \div 4
            r  == (j - 1) % 4
            b1 == b[3 * k + 1]
            b2 == IF 3 * k + 2 <= Len(b) THEN b[3 * k + 2] ELSE 0
            b3 == IF 3 * k + 3 <= Len(b) THEN b[3 * k + 3] ELSE 0
        IN  IF r = 0 THEN B64Char(b1 \div 4)
            ELSE IF r = 1 THEN B64Char((b1 % 4) * 16 + (b2 \div 16))
            ELSE IF r = 2 THEN
                IF 3 * k + 2 <= Len(b)
                THEN B64Char((b2 % 16) * 4 + (b3 \div 64)) ELSE 61
            ELSE IF 3 * k + 3 <= Len(b) THEN B64Char(b3 % 64) ELSE 61]

data_to_dataurl(mime, data) ==
    LET mimetype == IF mime = <<>> THEN detect_mimetype(data) ELSE mime
    IN  DATA_COLON \o mimetype \o BASE64_COMMA \o encode(data)

(***************************************************************************)
(* str::from_utf8: the well-formed byte sequences of UTF-8.                *)
(***************************************************************************)
\* How many continuation bytes the lead byte c takes: 0 for ASCII, -1 for a
\* byte that starts no well-formed sequence.
Utf8Width(c) ==
    IF c < 128 THEN 0
    ELSE IF c >= 194 /\ c <= 223 THEN 1
    ELSE IF c >= 224 /\ c <= 239 THEN 2
    ELSE IF c >= 240 /\ c <= 244 THEN 3
    ELSE -1

IsCont(s, i) == i >= 1 /\ i <= Len(s) /\ s[i] >= 128 /\ s[i] <= 191

\* The second byte of a sequence is further restricted after E0, ED, F0, F4
\* (no overlong forms, no surrogates, nothing above U+10FFFF).
SecondOk(c, d) ==
    /\ d >= (IF c = 224 THEN 160 ELSE IF c = 240 THEN 144 ELSE 128)
    /\ d <= (IF c = 237 THEN 159 ELSE IF c = 244 THEN 143 ELSE 191)

\* Every lead byte is followed by its continuation bytes, and every
\* continuation byte belongs to the sequence of a lead byte before it.
Utf8Valid(s) ==
    /\ \A i \in 1..Len(s) :
        \/ IsCont(s, i)
        \/ /\ Utf8Width(s[i]) >= 0
           /\ \A k \in 1..Utf8Width(s[i]) : IsCont(s, i + k)
           /\ Utf8Width(s[i]) >= 1 => SecondOk(s[i], s[i + 1])
    /\ \A i \in 1..Len(s) :
        IsCont(s, i) =>
            \E k \in 1..3 :
                /\ i - k >= 1
                /\ Utf8Width(s[i - k]) >= k
                /\ \A m \in 1..(k - 1) : IsCont(s, i - m)

from_utf8(bytes) == IF Utf8Valid(bytes) THEN Ok(bytes) ELSE Err("ParseError")

(***************************************************************************)
(* reqwest::Url, for http URLs: a host and a path (the path starts with    *)
(* '/').  UrlJoin is Url::join on references made of the characters the    *)
(* model's texts use: no scheme (':'), query ('?'), fragment ('#'),        *)
(* backslash, percent escape or "." / ".." segment occurs in them.         *)
(***************************************************************************)
MkUrl(host, path) == [host |-> host, path |-> path]

NoUrl == MkUrl(<<>>, <<>>)

\* http://h/
RootUrl == MkUrl(<<104>>, <<SLASH>>)

RECURSIVE LeadingSlashes(_)
LeadingSlashes(t) ==
    IF Len(t) > 0 /\ t[1] = SLASH THEN 1 + LeadingSlashes(Tail(t)) ELSE 0

\* Number of characters of t before its first '/', Len(t) when it has none.
RECURSIVE UntilSlash(_)
UntilSlash(t) ==
    IF Len(t) = 0 \/ t[1] = SLASH THEN 0 ELSE 1 + UntilSlash(Tail(t))

\* 1-based index of the last '/' of a path.
RECURSIVE LastSlash(_)
LastSlash(p) ==
    IF Len(p) = 0 THEN 0
    ELSE IF p[Len(p)] = SLASH THEN Len(p)
    ELSE LastSlash(SubSeq(p, 1, Len(p) - 1))

UrlJoin(base, t) ==
    LET k == LeadingSlashes(t) IN
    IF k = 0 THEN
        \* a path-relative reference replaces the last segment of the base
        Some(MkUrl(base.host, SubSeq(base.path, 1, LastSlash(base.path)) \o t))
    ELSE IF k = 1 THEN
        \* a path-absolute reference
        Some(MkUrl(base.host, t))
    ELSE IF k >= 3 THEN
        \* "//" opens the authority and the third '/' ends it at once: the
        \* host is empty (ParseError::EmptyHost)
        None
    ELSE
        \* a scheme-relative reference: "//", then a host, which must not
        \* be empty (ParseError::EmptyHost), then a path
        LET rest == SubSeq(t, k + 1, Len(t))
            h    == UntilSlash(rest)
            p    == SubSeq(rest, h + 1, Len(rest))
        IN  IF h = 0 THEN None
            ELSE Some(MkUrl(SubSeq(rest, 1, h), IF p = <<>> THEN <<SLASH>> ELSE p))

(***************************************************************************)
(* asset.rs: Asset::new                                                    *)
(***************************************************************************)
NewAsset(url, mime_hint) == [url |-> url, mime_hint |-> mime_hint, data |-> None]

(***************************************************************************)
(* Resources.  One record shape serves both implementations: an            *)
(* InertResource has no url and no `resources`.  `resources` holds the     *)
(* byte ranges <<start, end>> (0-based, end exclusive); the Asset paired   *)
(* with the i-th range is the i-th child node in the tree.                 *)
(***************************************************************************)
\* DemoResource::new
NewDemoResource(url) ==
    [kind |-> "Demo", data |-> None, url |-> url, resources |-> <<>>]

\* InertResource::default
NewInertResource ==
    [kind |-> "Inert", data |-> None, url |-> NoUrl, resources |-> <<>>]

\* Resource::has_data, both implementations
has_data(res) == IsSome(res.data)

(***************************************************************************)
(* URL_MATCH: (?:'|")(?P<inner>[^"'\n\s]+?)(?:"|')                          *)
(* The pattern is matched on a str, one character at a time, and \s is the *)
(* Unicode property White_Space: tab, line feed, vertical tab, form feed,  *)
(* carriage return and space, and the characters of WHITE_SPACE_UTF8,      *)
(* which take two or three bytes.                                          *)
(***************************************************************************)
IsQuote(c) == c = SQ \/ c = DQ

IsSpace(c) == c \in {9, LF, 11, 12, 13, SP}

\* The UTF-8 forms of the White_Space characters outside ASCII: U+0085,
\* U+00A0, U+1680, U+2000..U+200A, U+2028, U+2029, U+202F, U+205F, U+3000.
WHITE_SPACE_UTF8 ==
    {<<194, 133>>, <<194, 160>>, <<225, 154, 128>>, <<226, 128, 168>>,
     <<226, 128, 169>>, <<226, 128, 175>>, <<226, 129, 159>>, <<227, 128, 128>>}
        \cup {<<226, 128, b>> : b \in 128..138}

\* Does a white space character start at 0-based offset j of s?  (In
\* well-formed UTF-8 none of these forms starts inside another character.)
SpaceAt(s, j) ==
    \/ IsSpace(s[j + 1])
    \/ /\ s[j + 1] >= 128
       /\ \E w \in WHITE_SPACE_UTF8 :
            /\ j + Len(w) <= Len(s)
            /\ \A k \in 1..Len(w) : s[j + k] = w[k]

\* Is the byte at 0-based offset j of s part of a character of the class
\* [^"'\n\s]?
IsInner(s, j) ==
    /\ s[j + 1] # DQ /\ s[j + 1] # SQ /\ s[j + 1] # LF
    /\ ~SpaceAt(s, j)

\* 0-based offset of the first character at or after offset j that is not
\* an inner character, Len(s) when there is none.
RECURSIVE RunEnd(_, _)
RunEnd(s, j) ==
    IF j >= Len(s) \/ ~IsInner(s, j) THEN j ELSE RunEnd(s, j + 1)

\* Does a match start at 0-based offset i?
MatchAt(s, i) ==
    /\ i + 1 < Len(s)
    /\ IsQuote(s[i + 1])
    /\ IsInner(s, i + 1)
    /\ RunEnd(s, i + 1) < Len(s)
    /\ IsQuote(s[RunEnd(s, i + 1) + 1])

\* captures_iter, were each match reported by the range of the whole match,
\* the two quotes included, instead of the range of its `inner` group.
RECURSIVE CapturesWholeMatch(_, _)
CapturesWholeMatch(s, p) ==
    IF p >= Len(s) THEN <<>>
    ELSE IF MatchAt(s, p) THEN
        The({<<<<p, e + 1>>>> \o CapturesWholeMatch(s, e + 1) : e \in {RunEnd(s, p + 1)}})
    ELSE The({CapturesWholeMatch(s, q) : q \in {p + 1}})

\* captures_iter: the leftmost non-overlapping matches from offset p on,
\* each as the range <<start, end>> of its `inner` group.
RECURSIVE captures_iter(_, _)
captures_iter(s, p) ==
    IF p >= Len(s) THEN <<>>
    ELSE IF MatchAt(s, p) THEN
        The({<<<<p + 1, e>>>> \o captures_iter(s, e + 1) : e \in {RunEnd(s, p + 1)}})
    ELSE The({captures_iter(s, q) : q \in {p + 1}})

(***************************************************************************)
(* demo_resource.rs: DemoResource::parse.  The outcome is "panic" (the     *)
(* panic! of line 39), "ParseError" or "Ok"; `res` is the resource after   *)
(* the call and `children` the Assets pushed, in the order pushed.         *)
(***************************************************************************)
ParseOutcome(outcome, res, children) ==
    [outcome |-> outcome, res |-> res, children |-> children]

\* Line 58: the extension test on the matched text.
is_text(inner) == EndsWith(inner, TXT)

\* Lines 51-72, were a reference whose URL a later match of the text gives
\* again to be dropped, so that no URL is recorded twice.
RECURSIVE PushLinksDedup(_, _, _)
PushLinksDedup(url, data, matches) ==
    IF matches = <<>> THEN <<>>
    ELSE The({IF IsSome(joined)
                 /\ \A i \in 1..Len(rest) : rest[i].asset.url # Unwrap(joined)
              THEN <<[range |-> Head(matches),
                      asset |-> NewAsset(Unwrap(joined),
                                 IF is_text(Slice(data, Head(matches)[1], Head(matches)[2]))
                                 THEN TEXT_PLAIN ELSE <<>>)]>> \o rest
              ELSE rest :
              joined \in {UrlJoin(url, Slice(data, Head(matches)[1], Head(matches)[2]))},
              rest \in {PushLinksDedup(url, data, Tail(matches))}})

\* Lines 51-72: one (range, Asset) pair per match whose join succeeds.
RECURSIVE PushLinks(_, _, _)
PushLinks(url, data, matches) ==
    IF matches = <<>> THEN <<>>
    ELSE LET range == Head(matches)
             inner == Slice(data, range[1], range[2])
             joined == UrlJoin(url, inner)
             rest == PushLinks(url, data, Tail(matches))
         IN  IF IsSome(joined)
             THEN <<[range |-> range,
                     asset |-> NewAsset(Unwrap(joined),
                                        IF is_text(inner) THEN TEXT_PLAIN ELSE <<>>)]>>
                  \o rest
             ELSE rest

\* DemoResource::parse, were the bytes stored before they are validated.
DemoParseStoresFirst(res, bytes) ==
    IF has_data(res) THEN ParseOutcome("panic", res, <<>>)
    ELSE IF ~from_utf8(bytes).ok
    THEN ParseOutcome("ParseError", [res EXCEPT !.data = Some(bytes)], <<>>)
    ELSE The({ParseOutcome("Ok",
                [res EXCEPT !.data = Some(bytes),
                            !.resources = res.resources \o
                                [i \in 1..Len(links) |-> links[i].range]],
                [i \in 1..Len(links) |-> links[i].asset]) :
              links \in {PushLinks(res.url, bytes, captures_iter(bytes, 0))}})

DemoParse(res, bytes) ==
    IF has_data(res) THEN ParseOutcome("panic", res, <<>>)
    ELSE IF ~from_utf8(bytes).ok THEN ParseOutcome("ParseError", res, <<>>)
    ELSE The({ParseOutcome("Ok",
                [res EXCEPT !.data = Some(bytes),
                            !.resources = res.resources \o
                                [i \in 1..Len(links) |-> links[i].range]],
                [i \in 1..Len(links) |-> links[i].asset]) :
              links \in {PushLinks(res.url, bytes, captures_iter(bytes, 0))}})

\* InertResource::parse, were it to take an empty buffer for no data at all.
InertParseSkipsEmpty(res, bytes) ==
    ParseOutcome("Ok",
        [res EXCEPT !.data = IF bytes = <<>> THEN None ELSE Some(bytes)], <<>>)

\* inert_resource.rs: InertResource::parse
InertParse(res, bytes) ==
    ParseOutcome("Ok", [res EXCEPT !.data = Some(bytes)], <<>>)

\* Resource::parse through the trait object
parse(res, bytes) ==
    IF res.kind = "Demo" THEN DemoParse(res, bytes) ELSE InertParse(res, bytes)

(***************************************************************************)
(* The asset tree.                                                         *)
(***************************************************************************)
Root == <<>>

Child(n, i) == Append(n, i)

\* Resource::needed_assets of the resource attached at node n: the node
\* identifiers of its child Assets, in the order of `resources`.
needed_assets(tree, n) ==
    LET res == Unwrap(tree[n].data)
    IN  IF res.kind = "Demo"
        THEN [i \in 1..Len(res.resources) |-> Child(n, i)]
        ELSE <<>>

\* The tree after the resource at node n took the parse outcome `out`:
\* the resource is replaced and the pushed Assets become new child nodes.
Attach(tree, n, out) ==
    LET old == Len(Unwrap(tree[n].data).resources)
        new == {Child(n, old + i) : i \in 1..Len(out.children)}
    IN  [m \in DOMAIN tree \cup new |->
            IF m = n THEN [tree[n] EXCEPT !.data = Some(out.res)]
            ELSE IF m \in new THEN out.children[m[Len(m)] - old]
            ELSE tree[m]]

\* String::replace_range
replace_range(content, range, with) ==
    Slice(content, 0, range[1]) \o with \o Slice(content, range[2], Len(content))

(***************************************************************************)
(* Resource::render.  RenderLoop is the loop of DemoResource::render at    *)
(* index i of `resources`, walked from the last entry to the first.        *)
(***************************************************************************)
RECURSIVE render(_, _)
RECURSIVE RenderLoop(_, _, _, _)

\* The loop of DemoResource::render, were it to leave the reference of a
\* child that cannot be rendered as it stands instead of failing.
RECURSIVE RenderLoopLenient(_, _, _, _)
RenderLoopLenient(tree, n, i, content) ==
    IF i = 0 THEN Ok(content)
    ELSE LET res   == Unwrap(tree[n].data)
             child == tree[Child(n, i)]
         IN  The({RenderLoopLenient(tree, n, i - 1, c) :
                  c \in {IF r.ok
                         THEN replace_range(content, res.resources[i],
                                 data_to_dataurl(child.mime_hint, r.val))
                         ELSE content :
                         r \in {IF IsSome(child.data) THEN render(tree, Child(n, i))
                                ELSE Err("ResourceUnloaded")}}})

\* The loop of DemoResource::render, were it to walk `resources` from the
\* first entry to the last (without .rev()): entries j..i, in that order.
RECURSIVE RenderLoopFrom(_, _, _, _, _)
RenderLoopFrom(tree, n, j, i, content) ==
    IF j > i THEN Ok(content)
    ELSE LET res   == Unwrap(tree[n].data)
             child == tree[Child(n, j)]
         IN  IF ~IsSome(child.data) THEN Err("ResourceUnloaded")
             ELSE The({IF ~r.ok THEN r
                       ELSE The({RenderLoopFrom(tree, n, j + 1, i, c) :
                                 c \in {replace_range(content, res.resources[j],
                                            data_to_dataurl(child.mime_hint, r.val))}}) :
                       r \in {render(tree, Child(n, j))}})

RenderLoopAscending(tree, n, i, content) == RenderLoopFrom(tree, n, 1, i, content)

RenderLoop(tree, n, i, content) ==
    IF i = 0 THEN Ok(content)
    ELSE LET res   == Unwrap(tree[n].data)
             child == tree[Child(n, i)]
         IN  IF ~IsSome(child.data) THEN Err("ResourceUnloaded")
             ELSE The({IF ~r.ok THEN r
                       ELSE The({RenderLoop(tree, n, i - 1, c) :
                                 c \in {replace_range(content, res.resources[i],
                                            data_to_dataurl(child.mime_hint, r.val))}}) :
                       r \in {render(tree, Child(n, i))}})

DemoRender(tree, n) ==
    LET res == Unwrap(tree[n].data)
    IN  IF ~IsSome(res.data) THEN Err("ResourceUnloaded")
        ELSE RenderLoop(tree, n, Len(res.resources), Unwrap(res.data))

InertRender(tree, n) ==
    LET res == Unwrap(tree[n].data)
    IN  IF IsSome(res.data) THEN Ok(Unwrap(res.data)) ELSE Err("ResourceUnloaded")

render(tree, n) ==
    IF Unwrap(tree[n].data).kind = "Demo" THEN DemoRender(tree, n)
    ELSE InertRender(tree, n)

(***************************************************************************)
(* asset.rs                                                                *)
(***************************************************************************)
\* Asset::auto_select_resource_type, were it to insert a new resource
\* whether or not one is attached (insert for get_or_insert_with).
AutoSelectReplaces(asset) ==
    [asset EXCEPT !.data =
        Some(IF EqIgnoreAsciiCase(asset.mime_hint, TEXT_PLAIN)
             THEN NewDemoResource(asset.url)
             ELSE NewInertResource)]

\* Asset::auto_select_resource_type: the Asset afterwards.
auto_select_resource_type(asset) ==
    IF IsSome(asset.data) THEN asset
    ELSE [asset EXCEPT !.data =
            Some(IF EqIgnoreAsciiCase(asset.mime_hint, TEXT_PLAIN)
                 THEN NewDemoResource(asset.url)
                 ELSE NewInertResource)]

\* Asset::try_stringify, were it to give the empty string when the render
\* fails.
TryStringifyLossy(tree, n) ==
    IF ~IsSome(tree[n].data) THEN Err("MissingResource")
    ELSE The({IF ~r.ok THEN Ok(<<>>) ELSE from_utf8(r.val) : r \in {render(tree, n)}})

\* Asset::try_stringify
try_stringify(tree, n) ==
    IF ~IsSome(tree[n].data) THEN Err("MissingResource")
    ELSE The({IF ~r.ok THEN r ELSE from_utf8(r.val) : r \in {render(tree, n)}})

(***************************************************************************)
(* The fetch capability, client.get(url).send().await then .bytes().await: *)
(* what the web answers for each URL.  A response is a body, a transport   *)
(* failure (reqwest::Error) or, for a stalled fetch, never arrives.        *)
(***************************************************************************)
OkBody(b) == [kind |-> "ok", body |-> b]
\* send().await gives Err
HttpFailure == [kind |-> "err", body |-> <<>>]
\* send().await never completes
Stalled == [kind |-> "stall", body |-> <<>>]
\* send().await gives a response, whose bytes().await gives Err
BodyFailure == [kind |-> "errbody", body |-> <<>>]
\* send().await gives a response, whose bytes().await never completes
StalledBody == [kind |-> "stallbody", body |-> <<>>]

\* Line 204: does send().await give Ok(response)?
Responds(resp) == resp.kind \in {"ok", "errbody", "stallbody"}

\* Lines 209 and 211: does one of the two awaits give Err?
FetchFails(resp) == resp.kind \in {"err", "errbody"}

\* Does one of the two awaits never complete?
FetchStalls(resp) == resp.kind \in {"stall", "stallbody"}

\* http://h/a, http://h/txt, http://h/atxt: what the references a, txt and
\* atxt of a document at http://h/, http://h/txt or http://h/atxt resolve to.
UrlA == MkUrl(<<104>>, <<SLASH, 97>>)
UrlTxt == MkUrl(<<104>>, <<SLASH, 116, 120, 116>>)
UrlATxt == MkUrl(<<104>>, <<SLASH, 97, 116, 120, 116>>)

Urls == {RootUrl, UrlA, UrlTxt, UrlATxt}

\* The bodies the modelled web serves.
\* (empty)
BodyEmpty == <<>>
\* the PNG signature, which is not UTF-8
BodyPng == <<137, 80, 78, 71, 13, 10, 26, 10>>
\* 'a'
BodyOne == <<39, 97, 39>>
\* 'a' 'txt'
BodyTwo == <<39, 97, 39, 32, 39, 116, 120, 116, 39>>
\* 'a''a'
BodyDup == <<39, 97, 39, 39, 97, 39>>
\* x'//'"a'
BodyMixed == <<120, 39, 47, 47, 39, 34, 97, 39>>

\* 'a b' with U+00A0 (no-break space) for the space
BodyNbsp == <<39, 97, 194, 160, 98, 39>>
\* '///a'
BodySlashes == <<39, 47, 47, 47, 97, 39>>

\* "atxt"
BodyATxt == <<34, 97, 116, 120, 116, 34>>

WebBodies ==
    {BodyEmpty, BodyPng, BodyOne, BodyTwo, BodyDup, BodyMixed, BodyATxt}

Responses == {HttpFailure, Stalled} \cup {OkBody(b) : b \in WebBodies}

\* The responses whose body does not arrive.
BodyLost == {BodyFailure, StalledBody}

\* The characters of the exhaustively enumerated texts: ' a and space.
TextAlphabet == {SQ, 97, SP}

RECURSIVE StringsOfLen(_)
StringsOfLen(k) ==
    IF k = 0 THEN {<<>>}
    ELSE {Append(t, c) : t \in StringsOfLen(k - 1), c \in TextAlphabet}

\* pre 'c.txt' p
BodySplice == <<112, 114, 101, 32, 39, 99, 46, 116, 120, 116, 39, 32, 112>>
\* hello
BodyHello == <<104, 101, 108, 108, 111>>
\* 'txt'
BodyTxt == <<39, 116, 120, 116, 39>>
\* 'a' 'a' 'a'
BodyThree == <<39, 97, 39, 32, 39, 97, 39, 32, 39, 97, 39>>

\* The texts of the root document, and the buffers of the first parse call
\* the direct caller makes on the first Asset's resource.
Texts ==
    UNION {StringsOfLen(k) : k \in 0..MaxLen}
        \cup WebBodies
        \cup {BodySplice, BodyHello, BodyThree, BodyNbsp, BodySlashes}

\* The webs of the model: every assignment of a response to each URL,
\* every text as the root document beside every response for http://h/a,
\* and the webs in which the body of a response is lost, beside every
\* response for the other URLs a root document refers to.
Worlds ==
    [Urls -> Responses] \cup
    {[u \in Urls |-> IF u = RootUrl THEN OkBody(t)
                     ELSE IF u = UrlA THEN r ELSE HttpFailure] :
        t \in Texts, r \in Responses \cup BodyLost} \cup
    {[u \in Urls |-> IF u = RootUrl THEN r0
                     ELSE IF u = UrlA THEN ra
                     ELSE IF u = UrlTxt THEN rt ELSE OkBody(BodyOne)] :
        r0 \in {OkBody(BodyTwo)} \cup BodyLost,
        ra \in Responses \cup BodyLost,
        rt \in Responses \cup BodyLost}

\* A URL outside the modelled web is an unreachable host.
Fetch(url) == IF url \in DOMAIN web THEN web[url] ELSE HttpFailure

(***************************************************************************)
(* Bookkeeping of the calls made on each node: how often its download was  *)
(* pushed to the in-flight set, a GET was issued for it, parse was called  *)
(* on its resource and returned Ok, and the argument of the last parse     *)
(* that returned Ok.                                                       *)
(***************************************************************************)
NoCalls == [pushes |-> 0, gets |-> 0, parses |-> 0, oks |-> 0, last |-> None]

\* `c` extended with empty records for the nodes of `tree` it lacks.
Track(c, tree) == [m \in DOMAIN tree |-> IF m \in DOMAIN c THEN c[m] ELSE NoCalls]

NoteParse(c, n, bytes, out) ==
    [c EXCEPT ![n].parses = @ + 1,
              ![n].oks = IF out.outcome = "Ok" THEN @ + 1 ELSE @,
              ![n].last = IF out.outcome = "Ok" THEN Some(bytes) ELSE @]

NotePushes(c, kids) ==
    [m \in DOMAIN c |->
        IF \E i \in 1..Len(kids) : kids[i] = m
        THEN [c[m] EXCEPT !.pushes = @ + 1] ELSE c[m]]

\* Asset::download, lines 204-219, were the response for a URL that an
\* ancestor of node n was downloaded from set aside, nothing parsed.
DownloadResultOncePerUrl(tree, n, resp) ==
    IF FetchFails(resp) \/ \E k \in 0..(Len(n) - 1) :
                              tree[SubSeq(n, 1, k)].url = tree[n].url
    THEN [result |-> Err("HttpError"), tree |-> tree,
          out |-> ParseOutcome("none", Unwrap(tree[n].data), <<>>)]
    ELSE The({The({[result |-> IF out.outcome = "Ok" THEN Ok(needed_assets(t, n))
                                 ELSE Err(out.outcome),
                     tree |-> t, out |-> out] :
                    t \in {Attach(tree, n, out)}}) :
              out \in {parse(Unwrap(tree[n].data), resp.body)}})

(***************************************************************************)
(* Asset::download, lines 204-219: what the future of node n returns once  *)
(* the response `resp` has arrived, and the tree it leaves.                *)
(***************************************************************************)
DownloadResult(tree, n, resp) ==
    IF FetchFails(resp) THEN [result |-> Err("HttpError"), tree |-> tree,
                              out |-> ParseOutcome("none", Unwrap(tree[n].data), <<>>)]
    ELSE The({The({[result |-> IF out.outcome = "Ok" THEN Ok(needed_assets(t, n))
                                 ELSE Err(out.outcome),
                     tree |-> t, out |-> out] :
                    t \in {Attach(tree, n, out)}}) :
              out \in {parse(Unwrap(tree[n].data), resp.body)}})

(***************************************************************************)
(* Asset::download_complete, lines 270-288: the loop body on the result of *)
(* the download of node n.                                                 *)
(***************************************************************************)
\* Lines 274-277, were the resource selection of the assets skipped.
SelectNone(tree, kids) == tree

\* Lines 274-277: select a resource for each new asset ...
SelectAll(tree, kids) ==
    [m \in DOMAIN tree |->
        IF \E i \in 1..Len(kids) : kids[i] = m
        THEN auto_select_resource_type(tree[m]) ELSE tree[m]]

\* Lines 274-277, were the downloads of the new assets never pushed.
PushAllNone(fl, n, kids) == [m \in DOMAIN fl \ {n} |-> fl[m]]

\* Lines 274-277, were the queue rebuilt from the new assets alone, the
\* downloads still in it lost.
PushAllReplacing(fl, n, kids) ==
    [m \in {kids[i] : i \in 1..Len(kids)} |-> "new"]

\* ... and push its download; the finished future of n has left the queue.
PushAll(fl, n, kids) ==
    [m \in (DOMAIN fl \ {n}) \cup {kids[i] : i \in 1..Len(kids)} |->
        IF m \in DOMAIN fl \ {n} THEN fl[m] ELSE "new"]

\* Lines 282-287, were a failed download to end the whole traversal.
DropFailedAbortAll(fl, n) == [m \in {} |-> "new"]

\* Lines 282-287, were the failed download pushed again.
DropFailedRetries(fl, n) == [fl EXCEPT ![n] = "new"]

\* Lines 282-287: the error is printed; only the finished future is gone.
DropFailed(fl, n) == [m \in DOMAIN fl \ {n} |-> fl[m]]

\* Lines 279-281
IsUnreachableArm(e) == e \in {"AssetUnloaded", "MissingResource", "panic"}

HandleResult(n, r, tree, c) ==
    IF r.ok THEN
        /\ assets' = SelectAll(tree, r.val)
        /\ inflight' = PushAll(inflight, n, r.val)
        /\ calls' = NotePushes(c, r.val)
        /\ UNCHANGED <<log, pc>>
    ELSE IF IsUnreachableArm(r.err) THEN
        /\ pc' = "panic"
        /\ assets' = tree
        /\ calls' = c
        /\ UNCHANGED <<inflight, log>>
    ELSE
        /\ log' = Append(log, <<n, r.err>>)
        /\ inflight' = DropFailed(inflight, n)
        /\ assets' = tree
        /\ calls' = c
        /\ UNCHANGED pc

\* What a call of `op` on node n returned.
Returned(op, n, r) == [op |-> op, node |-> n, res |-> r]

\* The URLs of the text documents the text document at u refers to.
TextLinks(u) ==
    IF Fetch(u).kind = "ok" /\ from_utf8(Fetch(u).body).ok
    THEN LET kids == DemoParse(NewDemoResource(u), Fetch(u).body).children
         IN  {kids[i].url : i \in {j \in 1..Len(kids) :
                EqIgnoreAsciiCase(kids[j].mime_hint, TEXT_PLAIN)}}
    ELSE {}

\* The URLs reached from those of S in at most k steps along `links`.
RECURSIVE ReachFrom(_, _, _)
ReachFrom(links, S, k) ==
    IF k = 0 THEN S
    ELSE ReachFrom(links, S \cup UNION {links[u] : u \in S}, k - 1)

\* No text document reachable from the root refers, directly or through
\* others, to itself.  (A URL outside Urls has no document.)
AcyclicWeb ==
    LET links == [u \in Urls |-> TextLinks(u) \cap Urls]
    IN  \A u \in ReachFrom(links, {RootUrl}, Cardinality(Urls)) :
            u \notin ReachFrom(links, links[u], Cardinality(Urls))

(***************************************************************************)
(* The run of download_complete_page (lib.rs), on the acyclic webs: on     *)
(* these every run is finite.  The cyclic webs are taken up by PrefixSpec. *)
(***************************************************************************)
\* The state after main() built the first Asset, on any web of Worlds.
InitAnyWeb ==
    /\ web \in Worlds
    /\ assets = (Root :> NewAsset(RootUrl, TEXT_PLAIN))
    /\ inflight = <<>>
    /\ pc = "start"
    /\ log = <<>>
    /\ ret = None
    /\ calls = (Root :> NoCalls)

Init == InitAnyWeb /\ AcyclicWeb

\* asset.rs lines 262-266: select the root's parser, push its download.
Begin ==
    /\ pc = "start"
    /\ assets' = SelectAll(assets, <<Root>>)
    /\ inflight' = PushAll(inflight, Root, <<Root>>)
    /\ calls' = NotePushes(calls, <<Root>>)
    /\ pc' = "loop"
    /\ UNCHANGED <<web, log, ret>>

\* The first poll of the download future of node n (asset.rs lines 194-202)
\* runs it up to the await of the GET, or to its end when there is nothing
\* to fetch.
Poll(n) ==
    /\ pc = "loop"
    /\ n \in DOMAIN inflight
    /\ inflight[n] = "new"
    /\ IF ~IsSome(assets[n].data) THEN
            HandleResult(n, Err("MissingResource"), assets, calls)
       ELSE IF has_data(Unwrap(assets[n].data)) THEN
            HandleResult(n, Ok(needed_assets(assets, n)), assets, calls)
       ELSE /\ inflight' = [inflight EXCEPT ![n] = "awaiting"]
            /\ calls' = [calls EXCEPT ![n].gets = @ + 1]
            /\ UNCHANGED <<assets, pc, log>>
    /\ UNCHANGED <<web, ret>>

\* send().await of node n gives a response: the future goes on to the
\* await of the body (lines 204-206) and is pending again.
Respond(n) ==
    /\ pc = "loop"
    /\ n \in DOMAIN inflight
    /\ inflight[n] = "awaiting"
    /\ Responds(Fetch(assets[n].url))
    /\ inflight' = [inflight EXCEPT ![n] = "body"]
    /\ UNCHANGED <<web, assets, pc, log, ret, calls>>

\* Has the await the future of node n is pending at completed with what
\* lets the future run to its end: an error of send(), or the outcome of
\* bytes()?
Ready(fl, n, resp) ==
    \/ fl[n] = "awaiting" /\ resp.kind = "err"
    \/ fl[n] = "body" /\ resp.kind \in {"ok", "errbody"}

\* The future of node n runs to its end (lines 207-219) and the loop body
\* takes its result (lines 269-288).
Complete(n) ==
    /\ pc = "loop"
    /\ n \in DOMAIN inflight
    /\ Ready(inflight, n, Fetch(assets[n].url))
    /\ \E d \in {DownloadResult(assets, n, Fetch(assets[n].url))} :
       \E c \in {IF d.out.outcome = "none" THEN calls
                 ELSE NoteParse(Track(calls, d.tree), n,
                                Fetch(assets[n].url).body, d.out)} :
            HandleResult(n, d.result, d.tree, c)
    /\ UNCHANGED <<web, ret>>

\* Line 269, were the loop to end as soon as no response is awaited.
QueueEmptyNoneAwaited(fl) == \A m \in DOMAIN fl : fl[m] = "new"

\* Line 269: to_download.next() yields None, the queue holds no future.
QueueEmpty(fl) == DOMAIN fl = {}

\* Lines 269 and 291: the queue is empty, download_complete returns Ok(()).
Return ==
    /\ pc = "loop"
    /\ QueueEmpty(inflight)
    /\ pc' = "returned"
    /\ UNCHANGED <<web, assets, inflight, log, ret, calls>>

\* lib.rs line 17
Stringify ==
    /\ pc = "returned"
    /\ ret' = Some(Returned("try_stringify", Root, try_stringify(assets, Root)))
    /\ pc' = "done"
    /\ UNCHANGED <<web, assets, inflight, log, calls>>

Next ==
    \/ Begin
    \/ \E n \in DOMAIN inflight : Poll(n)
    \/ \E n \in DOMAIN inflight : Respond(n)
    \/ \E n \in DOMAIN inflight : Complete(n)
    \/ Return
    \/ Stringify

Spec == Init /\ [][Next]_vars

(***************************************************************************)
(* A caller that drives the Asset and Resource operations directly, in any *)
(* order: auto_select_resource_type, Resource::parse and Resource::render  *)
(* on the nodes of a tree that starts as one Asset.                        *)
(***************************************************************************)
\* The buffers of every other parse call of the direct caller.
ChildBodies == {BodyEmpty, BodyTxt, BodyPng}

ParseInputs(n) ==
    IF n = Root /\ calls[n].parses = 0 THEN Texts ELSE ChildBodies

ApiInit ==
    /\ web = [u \in Urls |-> HttpFailure]
    /\ \E m \in {TEXT_PLAIN, <<>>} : assets = (Root :> NewAsset(RootUrl, m))
    /\ inflight = <<>>
    /\ pc = "api"
    /\ log = <<>>
    /\ ret = None
    /\ calls = (Root :> NoCalls)

\* asset.auto_select_resource_type()
ApiSelect(n) ==
    /\ pc = "api"
    /\ Len(n) <= MaxDepth
    /\ assets' = SelectAll(assets, <<n>>)
    /\ UNCHANGED <<web, inflight, pc, log, ret, calls>>

\* asset.data.as_mut().unwrap().parse(bytes)
ApiParse(n, bytes) ==
    /\ pc = "api"
    /\ Len(n) <= MaxDepth
    /\ IsSome(assets[n].data)
    /\ calls[n].parses < MaxParses
    /\ LET out == parse(Unwrap(assets[n].data), bytes)
           t   == Attach(assets, n, out)
       IN  /\ assets' = t
           /\ calls' = NoteParse(Track(calls, t), n, bytes, out)
           /\ pc' = IF out.outcome = "panic" THEN "panic" ELSE pc
           /\ ret' = Some(Returned("parse", n,
                        IF out.outcome = "Ok" THEN Ok(<<>>) ELSE Err(out.outcome)))
    /\ UNCHANGED <<web, inflight, log>>

\* asset.data.as_ref().unwrap().render()
ApiRender(n) ==
    /\ pc = "api"
    /\ IsSome(assets[n].data)
    /\ ret' = Some(Returned("render", n, render(assets, n)))
    /\ UNCHANGED <<web, assets, inflight, pc, log, calls>>

ApiNext ==
    \/ \E n \in DOMAIN assets : ApiSelect(n)
    \/ \E n \in DOMAIN assets : \E bytes \in ParseInputs(n) : ApiParse(n, bytes)
    \/ \E n \in DOMAIN assets : ApiRender(n)

ApiSpec == ApiInit /\ [][ApiNext]_vars

\* The executor keeps polling: while a step of the run is possible, one is
\* taken.  A stalled fetch enables no step.
FairInit == Init

FairSpec == FairInit /\ [][Next]_vars /\ WF_vars(Next)

(***************************************************************************)
(* The run of download_complete_page on cyclic webs too, as far as the     *)
(* network has answered: it has answered the requests of the nodes less    *)
(* deep than MaxServed, and the requests of the deeper nodes are pending.  *)
(* Every step is a step of Next, and every state is one the program is in  *)
(* while it waits for the other answers.                                   *)
(***************************************************************************)
\* Each of these documents holds two references at most.
PrefixResponses ==
    {OkBody(BodyTwo), OkBody(BodyATxt), OkBody(BodyOne), HttpFailure}

PrefixWorlds == [Urls -> PrefixResponses]

PrefixInit == InitAnyWeb /\ web \in PrefixWorlds

\* The network answers the request of node n with a response.
PrefixRespond(n) == Len(n) < MaxServed /\ Respond(n)

\* The body of the response for node n arrives, or the network answers its
\* request with an error.
PrefixComplete(n) == Len(n) < MaxServed /\ Complete(n)

PrefixNext ==
    \/ Begin
    \/ \E n \in DOMAIN inflight : Poll(n)
    \/ \E n \in DOMAIN inflight : PrefixRespond(n)
    \/ \E n \in DOMAIN inflight : PrefixComplete(n)
    \/ Return
    \/ Stringify

PrefixSpec == PrefixInit /\ [][PrefixNext]_vars /\ WF_vars(PrefixNext)

(***************************************************************************)
(* A caller that drives Asset::auto_select_resource_type and               *)
(* Asset::download directly, on any Asset of the tree and in any order,    *)
(* one call at a time.  A download call creates the future (pc = "call"),  *)
(* which then runs to its end; `ret` is what the last call returned.       *)
(***************************************************************************)
\* "TEXT/PLAIN"
TEXT_PLAIN_UPPER == <<84, 69, 88, 84, 47, 80, 76, 65, 73, 78>>
\* "text"
TEXT_ONLY == <<116, 101, 120, 116>>

\* The mime hints the caller gives the first Asset.
CallHints == {TEXT_PLAIN, TEXT_PLAIN_UPPER, TEXT_ONLY, <<>>}

\* The webs of the direct caller: a root with two references, a text that
\* refers to a further text, failures of the fetch and of the parse.
CallWorlds ==
    {[u \in Urls |-> IF u = RootUrl THEN r0 ELSE IF u = UrlA THEN ra
                     ELSE IF u = UrlTxt THEN rt ELSE OkBody(BodyEmpty)] :
        r0 \in {OkBody(BodyTwo), OkBody(BodyPng), HttpFailure},
        ra \in {OkBody(BodyHello), HttpFailure, BodyFailure},
        rt \in {OkBody(BodyATxt), OkBody(BodyPng)}}

\* asset.rs lines 194-197, were a missing resource taken for a resource
\* with nothing to download.
DownloadEntryLenient(tree, n) ==
    IF ~IsSome(tree[n].data) THEN Some(Ok(<<>>))
    ELSE IF has_data(Unwrap(tree[n].data)) THEN Some(Ok(needed_assets(tree, n)))
    ELSE None

\* asset.rs lines 194-197, were the data fetched whether or not the
\* resource has data already.
DownloadEntryRefetches(tree, n) ==
    IF ~IsSome(tree[n].data) THEN Some(Err("MissingResource")) ELSE None

\* asset.rs lines 194-197 and 219: what download returns without fetching,
\* None when it goes on to the GET.
DownloadEntry(tree, n) ==
    IF ~IsSome(tree[n].data) THEN Some(Err("MissingResource"))
    ELSE IF has_data(Unwrap(tree[n].data)) THEN Some(Ok(needed_assets(tree, n)))
    ELSE None

CallInit ==
    /\ web \in CallWorlds
    /\ \E m \in CallHints : assets = (Root :> NewAsset(RootUrl, m))
    /\ inflight = <<>>
    /\ pc = "api"
    /\ log = <<>>
    /\ ret = None
    /\ calls = (Root :> NoCalls)

\* asset.auto_select_resource_type(), which returns the resource
CallSelect(n) ==
    /\ pc = "api"
    /\ Len(n) <= MaxDepth
    /\ assets' = SelectAll(assets, <<n>>)
    /\ ret' = Some(Returned("auto_select_resource_type", n,
                    Ok(Unwrap(auto_select_resource_type(assets[n]).data))))
    /\ UNCHANGED <<web, inflight, pc, log, calls>>

\* asset.download(client): the future is created
CallDownload(n) ==
    /\ pc = "api"
    /\ Len(n) <= MaxDepth
    /\ calls[n].gets < MaxGets
    /\ inflight' = (n :> "new")
    /\ pc' = "call"
    /\ ret' = None
    /\ UNCHANGED <<web, assets, log, calls>>

\* .await: the future runs to the await of the GET, or to its end when
\* there is nothing to fetch (lines 194-202, 219)
CallPoll(n) ==
    /\ pc = "call"
    /\ inflight[n] = "new"
    /\ \E e \in {DownloadEntry(assets, n)} :
        IF IsSome(e)
        THEN /\ ret' = Some(Returned("download", n, Unwrap(e)))
             /\ inflight' = <<>>
             /\ pc' = "api"
             /\ UNCHANGED calls
        ELSE /\ inflight' = (n :> "awaiting")
             /\ calls' = [calls EXCEPT ![n].gets = @ + 1]
             /\ UNCHANGED <<ret, pc>>
    /\ UNCHANGED <<web, assets, log>>

\* send().await gives a response; the future awaits its body (lines 204-206)
CallRespond(n) ==
    /\ pc = "call"
    /\ inflight[n] = "awaiting"
    /\ Responds(Fetch(assets[n].url))
    /\ inflight' = (n :> "body")
    /\ UNCHANGED <<web, assets, pc, log, ret, calls>>

\* The future runs to its end (lines 207-219)
CallComplete(n) ==
    /\ pc = "call"
    /\ Ready(inflight, n, Fetch(assets[n].url))
    /\ \E d \in {DownloadResult(assets, n, Fetch(assets[n].url))} :
        /\ assets' = d.tree
        /\ calls' = IF d.out.outcome = "none" THEN calls
                    ELSE NoteParse(Track(calls, d.tree), n,
                                   Fetch(assets[n].url).body, d.out)
        /\ ret' = Some(Returned("download", n, d.result))
        /\ pc' = IF d.out.outcome = "panic" THEN "panic" ELSE "api"
    /\ inflight' = <<>>
    /\ UNCHANGED <<web, log>>

CallNext ==
    \/ \E n \in DOMAIN assets : CallSelect(n)
    \/ \E n \in DOMAIN assets : CallDownload(n)
    \/ \E n \in DOMAIN inflight : CallPoll(n)
    \/ \E n \in DOMAIN inflight : CallRespond(n)
    \/ \E n \in DOMAIN inflight : CallComplete(n)

CallSpec == CallInit /\ [][CallNext]_vars

(***************************************************************************)
(* Properties.                                                             *)
(***************************************************************************)
HasResource(n) == IsSome(assets[n].data)

ResourceOf(n) == Unwrap(assets[n].data)

\* The nodes a node owns, directly or through its children.
Descendants(n) ==
    {m \in DOMAIN assets : Len(m) > Len(n) /\ SubSeq(m, 1, Len(n)) = n}

Children(n) == {m \in Descendants(n) : Len(m) = Len(n) + 1}

Renders(n) == HasResource(n) /\ render(assets, n).ok

IsDemo(n) == HasResource(n) /\ ResourceOf(n).kind = "Demo"

IsInert(n) == HasResource(n) /\ ResourceOf(n).kind = "Inert"

LastReturn(op, n) == ret # None /\ Unwrap(ret).op = op /\ Unwrap(ret).node = n

\* C3: render() of a resource succeeds only if the resource has data and
\* every Asset it owns, directly or through its children, has a resource
\* whose render() succeeds too; a resource that was never parsed fails with
\* ResourceUnloaded; and when the render of a child fails, the parent fails
\* with the failure of one of its children, unchanged.
C3_RenderNeedsData ==
    \A n \in DOMAIN assets :
        HasResource(n) =>
            \A r \in {render(assets, n)} :
            \A failing \in {{c \in Children(n) : HasResource(c) /\ ~Renders(c)}} :
                /\ r.ok => /\ has_data(ResourceOf(n))
                           /\ \A m \in Descendants(n) : Renders(m)
                /\ ~has_data(ResourceOf(n)) => r = Err("ResourceUnloaded")
                /\ (has_data(ResourceOf(n)) /\ failing # {}) =>
                        /\ ~r.ok
                        /\ \E c \in failing : r = render(assets, c)

\* render() of the first Asset's resource has just succeeded on a tree three
\* levels deep.
C3_Witness ==
    /\ LastReturn("render", Root)
    /\ Unwrap(ret).res.ok
    /\ Unwrap(ret).res = render(assets, Root)
    /\ \E m \in DOMAIN assets : Len(m) = 2

\* The data URI that replaces the i-th recorded span of node n.
UriOf(n, i) ==
    data_to_dataurl(assets[Child(n, i)].mime_hint, render(assets, Child(n, i)).val)

\* The text of node n from offset `pos` on, with the spans i, i + 1, ... each
\* replaced by its own URI, built from left to right.
RECURSIVE SplicedFrom(_, _, _)
SplicedFrom(n, i, pos) ==
    LET res  == ResourceOf(n)
        text == Unwrap(res.data)
    IN  IF i > Len(res.resources) THEN Slice(text, pos, Len(text))
        ELSE Slice(text, pos, res.resources[i][1]) \o UriOf(n, i)
                \o SplicedFrom(n, i + 1, res.resources[i][2])

\* C6: the render of a parsed DemoResource whose children all render is the
\* original text with every recorded span replaced, all at once, by the
\* data URI of its own child: what lies outside the spans, the quotes of
\* each token included, stays where it was, in order.
C6_SpliceAllAtOnce ==
    \A n \in DOMAIN assets :
        (/\ IsDemo(n)
         /\ has_data(ResourceOf(n))
         /\ \A c \in Children(n) : Renders(c))
            => render(assets, n) = Ok(SplicedFrom(n, 1, 0))

\* render() has just succeeded on a text with two spans whose replacements
\* differ in length from each other and from the tokens.
C6_Witness ==
    /\ LastReturn("render", Root)
    /\ Unwrap(ret).res.ok
    /\ Unwrap(ret).res = render(assets, Root)
    /\ IsDemo(Root)
    /\ Len(ResourceOf(Root).resources) = 2
    /\ Len(UriOf(Root, 1)) # Len(UriOf(Root, 2))
    /\ \A i \in 1..2 :
        Len(UriOf(Root, i)) #
            ResourceOf(Root).resources[i][2] - ResourceOf(Root).resources[i][1]

\* C8: a parse call on a resource that already has data faults (panics): it
\* does not return.
C8_SecondParseFaults ==
    [][\A n \in DOMAIN assets :
        (/\ HasResource(n)
         /\ has_data(ResourceOf(n))
         /\ calls'[n].parses = calls[n].parses + 1)
            => pc' = "panic"]_vars

\* C9: an InertResource has data exactly when parse was called on it, it
\* then renders the very bytes of the (latest) parse call, the empty buffer
\* included, and it never has children.
C9_InertRoundTrip ==
    \A n \in DOMAIN assets :
        IsInert(n) =>
            /\ has_data(ResourceOf(n)) <=> calls[n].parses >= 1
            /\ has_data(ResourceOf(n)) =>
                    /\ calls[n].last # None
                    /\ render(assets, n) = Ok(Unwrap(calls[n].last))
            /\ needed_assets(assets, n) = <<>>
            /\ Children(n) = {}

\* render() has just returned the empty buffer an InertResource was given.
C9_Witness ==
    \E n \in DOMAIN assets :
        /\ IsInert(n)
        /\ calls[n].last = Some(<<>>)
        /\ LastReturn("render", n)
        /\ Unwrap(ret).res = Ok(<<>>)

\* C19: a resource has data exactly when a parse call on it has returned
\* Ok; as long as none has, it has recorded no reference and owns no child
\* (a parse that fails with ParseError leaves it so); and a resource that
\* has data has data ever after.
C19_HasDataIffParsed ==
    /\ [](\A n \in DOMAIN assets :
            HasResource(n) =>
                /\ has_data(ResourceOf(n)) <=> calls[n].oks >= 1
                /\ calls[n].oks = 0 =>
                    /\ ResourceOf(n).resources = <<>>
                    /\ Children(n) = {})
    /\ [][\A n \in DOMAIN assets :
            (HasResource(n) /\ has_data(ResourceOf(n)))
                => /\ IsSome(assets'[n].data)
                   /\ has_data(Unwrap(assets'[n].data))]_vars

\* parse has just failed with ParseError on a DemoResource, which has no
\* data.
C19_Witness ==
    /\ LastReturn("parse", Root)
    /\ Unwrap(ret).res = Err("ParseError")
    /\ IsDemo(Root)
    /\ calls[Root].parses = 1
    /\ ~has_data(ResourceOf(Root))

(***************************************************************************)
(* Properties of the run of download_complete_page.                        *)
(***************************************************************************)
Logged(n, e) == \E i \in 1..Len(log) : log[i] = <<n, e>>

Failed(n) == \E i \in 1..Len(log) : log[i][1] = n

HasData(n) == HasResource(n) /\ has_data(ResourceOf(n))

Returned_ == pc \in {"returned", "done"}

\* The rendering the specification requires after a failed fetch, which is
\* not what render computes (render fails as a whole, see RenderLoop): the
\* text of node n from offset `pos`
\* on, with the spans i, i + 1, ... of the children that have data replaced
\* and the others left as they are.
RECURSIVE BestEffortFrom(_, _, _)
BestEffort(n) ==
    IF IsDemo(n) THEN BestEffortFrom(n, 1, 0) ELSE Unwrap(ResourceOf(n).data)

BestEffortFrom(n, i, pos) ==
    LET res  == ResourceOf(n)
        text == Unwrap(res.data)
    IN  IF i > Len(res.resources) THEN Slice(text, pos, Len(text))
        ELSE Slice(text, pos, res.resources[i][1])
                \o (IF HasData(Child(n, i))
                    THEN data_to_dataurl(assets[Child(n, i)].mime_hint,
                                         BestEffort(Child(n, i)))
                    ELSE Slice(text, res.resources[i][1], res.resources[i][2]))
                \o BestEffortFrom(n, i + 1, res.resources[i][2])

\* C1: when the fetch of a child reference has failed with
\* HttpError, the root still renders, to its text with the failed reference
\* left as the original token and the resolved references substituted.
C1_FailedChildLeftUnsubstituted ==
    (/\ pc = "done"
     /\ HasData(Root)
     /\ \E n \in DOMAIN assets \ {Root} : Logged(n, "HttpError"))
        => Unwrap(ret).res = Ok(BestEffort(Root))

\* What the code does instead: when the fetch of a child reference has
\* failed with HttpError, the failure is reported and the traversal goes on
\* to its end (every other discovered node is fetched, and parsed unless it
\* failed itself), but the render of the root then fails with
\* ResourceUnloaded, and no text is produced.
C1_FailedChildFailsRender ==
    (/\ pc = "done"
     /\ \E n \in DOMAIN assets \ {Root} : Logged(n, "HttpError"))
        => /\ Unwrap(ret).res = Err("ResourceUnloaded")
           /\ DOMAIN inflight = {}
           /\ \A m \in DOMAIN assets :
                /\ HasResource(m)
                /\ calls[m].gets = 1
                /\ HasData(m) <=> ~Failed(m)

\* The run has ended with the first reference of the root failed and its
\* second reference resolved.
FailedAndResolved ==
    /\ pc = "done"
    /\ Child(Root, 2) \in DOMAIN assets
    /\ Logged(Child(Root, 1), "HttpError")
    /\ HasData(Child(Root, 2))

\* C2: failures never stop the traversal: it never panics, every discovered
\* node has a resource and had its download pushed, every node is in flight,
\* parsed, or reported as failed (a failure takes nothing else out of the
\* queue), and download_complete returns only with the queue empty.
C2_FailureIsLocal ==
    /\ pc # "panic"
    /\ pc # "start" =>
        \A n \in DOMAIN assets :
            /\ HasResource(n)
            /\ calls[n].pushes = 1
            /\ n \in DOMAIN inflight \/ HasData(n) \/ Failed(n)
    /\ \A n \in DOMAIN inflight : ~HasData(n) /\ ~Failed(n)
    /\ Returned_ => DOMAIN inflight = {}

\* download_complete has returned after an HttpError and a ParseError, with
\* another node than the root parsed.
C2_Witness ==
    /\ pc = "returned"
    /\ \E n \in DOMAIN assets : Logged(n, "HttpError")
    /\ \E n \in DOMAIN assets : Logged(n, "ParseError")
    /\ \E n \in DOMAIN assets \ {Root} : HasData(n)

\* C4: when download_complete has ended and no fetch or parse failed, every
\* discovered node has a resource with data, the root renders, and every
\* text node renders to its text with every recorded span replaced by the
\* data URI of its child.
C4_AllResolvedRenders ==
    (pc = "done" /\ log = <<>>) =>
        /\ \A n \in DOMAIN assets : HasData(n)
        /\ Unwrap(ret).res.ok
        /\ Unwrap(ret).res = render(assets, Root)
        /\ \A n \in DOMAIN assets :
            IsDemo(n) => render(assets, n) = Ok(SplicedFrom(n, 1, 0))

\* The run has ended without a failure on a tree three levels deep whose
\* root has two references.
C4_Witness ==
    /\ pc = "done"
    /\ log = <<>>
    /\ Len(ResourceOf(Root).resources) >= 2
    /\ \E m \in DOMAIN assets : Len(m) = 2

\* Is <<a, b>> the range of a quoted token of s: a quote, then the characters
\* at offsets a .. b - 1, none of them a quote or white space, then a quote?
IsToken(s, a, b) ==
    /\ 0 < a /\ a < b /\ b < Len(s)
    /\ IsQuote(s[a])
    /\ \A k \in (a + 1)..b : IsInner(s, k - 1)
    /\ IsQuote(s[b + 1])

Tokens(s) ==
    UNION {{<<a, b>> : b \in {e \in (a + 1)..(Len(s) - 1) : IsToken(s, a, e)}} :
           a \in {q \in 1..Len(s) : IsQuote(s[q])}}

\* The tokens a scan from left to right finds, when it resumes after the
\* closing quote of each token it finds: a token is found unless its opening
\* quote is the closing quote of a token found.
RECURSIVE ScannedUpTo(_, _)
ScannedUpTo(toks, a) ==
    IF a = 0 THEN {}
    ELSE The({IF \E t \in found : t[2] = a - 1 THEN found
              ELSE found \cup {c \in toks : c[1] = a} :
              found \in {ScannedUpTo(toks, a - 1)}})

Scanned(s) == The({ScannedUpTo(toks, Len(s)) : toks \in {{t : t \in Tokens(s)}}})

\* C7: a parsed DemoResource records exactly the quoted tokens of its text
\* that resolve against its URL, from left to right, and owns one child
\* Asset per token, in that order, located at the token's resolution: N
\* tokens give N children, equal tokens give separate children, and once
\* download_complete has returned one GET was issued for each child.
C7_OneChildPerToken ==
    \A n \in DOMAIN assets :
        (IsDemo(n) /\ has_data(ResourceOf(n))) =>
            \A res \in {ResourceOf(n)} :
            \A found \in {{t \in Scanned(Unwrap(res.data)) :
                    IsSome(UrlJoin(res.url, Slice(Unwrap(res.data), t[1], t[2])))}} :
                /\ Len(res.resources) = Cardinality(found)
                /\ {res.resources[i] : i \in 1..Len(res.resources)} = found
                /\ \A i, j \in 1..Len(res.resources) :
                        i < j => res.resources[i][2] < res.resources[j][1]
                /\ Len(needed_assets(assets, n)) = Cardinality(found)
                /\ Children(n) = {needed_assets(assets, n)[i] : i \in 1..Len(res.resources)}
                /\ Cardinality(Children(n)) = Cardinality(found)
                /\ \A i \in 1..Len(res.resources) :
                        assets[needed_assets(assets, n)[i]].url =
                            Unwrap(UrlJoin(res.url,
                                Slice(Unwrap(res.data), res.resources[i][1],
                                      res.resources[i][2])))
                /\ Returned_ => \A c \in Children(n) : calls[c].gets = 1

\* download_complete has returned on a text whose first two tokens are the
\* same reference: two children with one URL, each fetched once.
C7_Witness ==
    /\ Returned_
    /\ IsDemo(Root)
    /\ has_data(ResourceOf(Root))
    /\ Len(ResourceOf(Root).resources) >= 2
    /\ assets[Child(Root, 1)].url = assets[Child(Root, 2)].url
    /\ calls[Child(Root, 1)].gets = 1
    /\ calls[Child(Root, 2)].gets = 1

\* A fetch that was started and never completes.
StalledInFlight ==
    \E n \in DOMAIN inflight :
        \/ inflight[n] = "awaiting" /\ Fetch(assets[n].url).kind = "stall"
        \/ inflight[n] = "body" /\ Fetch(assets[n].url).kind = "stallbody"

\* C5: download_complete returns only with the in-flight set empty; on an
\* acyclic web it eventually returns unless a fetch it started stalls; and
\* a started fetch that stalls stays in flight for ever, so that
\* download_complete never returns.
C5_ReturnsIffQueueDrains ==
    /\ [](Returned_ => DOMAIN inflight = {})
    /\ <>(Returned_ \/ StalledInFlight)
    /\ [](StalledInFlight => ~Returned_)
    /\ [][StalledInFlight => StalledInFlight']_vars

\* download_complete has returned on a web in which one fetch failed and
\* another node than the root was parsed.
C5_Witness ==
    /\ pc = "returned"
    /\ Len(log) = 1
    /\ \E n \in DOMAIN assets \ {Root} : HasData(n)

\* The tree resolved one node at a time, depth first, in discovery order.
RECURSIVE ResolveNode(_, _)
RECURSIVE ResolveKids(_, _, _)
ResolveNode(tree, n) ==
    LET t == SelectAll(tree, <<n>>)
        resp == Fetch(t[n].url)
    IN  IF FetchStalls(resp) THEN t
        ELSE LET d == DownloadResult(t, n, resp)
             IN  IF d.result.ok THEN ResolveKids(d.tree, d.result.val, 1)
                 ELSE d.tree

ResolveKids(tree, kids, i) ==
    IF i > Len(kids) THEN tree
    ELSE ResolveKids(ResolveNode(tree, kids[i]), kids, i + 1)

Sequential == ResolveNode((Root :> NewAsset(RootUrl, TEXT_PLAIN)), Root)

\* C10: whatever the order in which the fetches completed, the run ends
\* with the tree that resolving the nodes one at a time yields, children in
\* discovery order, and with the render of that tree.
C10_OrderIndependent ==
    pc = "done" =>
        /\ assets = Sequential
        /\ ret = Some(Returned("try_stringify", Root, try_stringify(Sequential, Root)))

\* The run has ended after at least three fetches that could complete in
\* any order, one of them failed.
C10_Witness ==
    /\ pc = "done"
    /\ Cardinality(Children(Root)) >= 2
    /\ \E m \in DOMAIN assets : Len(m) = 2
    /\ Len(log) >= 1

\* The fetch of the root fails, or gives bytes that are not UTF-8.
RootUnusable ==
    \/ FetchFails(Fetch(RootUrl))
    \/ Fetch(RootUrl).kind = "ok" /\ ~Utf8Valid(Fetch(RootUrl).body)

\* C14: when the root cannot be fetched or is not UTF-8, download_complete
\* reports the failure and returns normally, with nothing else discovered,
\* and download_complete_page returns the failure of try_stringify, which
\* is ResourceUnloaded, not a string.
C14_RootFailureSurfaces ==
    RootUnusable =>
        /\ pc # "panic"
        /\ DOMAIN assets = {Root}
        /\ ~HasData(Root)
        /\ Returned_ =>
            /\ DOMAIN inflight = {}
            /\ log = <<<<Root, IF FetchFails(Fetch(RootUrl))
                               THEN "HttpError" ELSE "ParseError">>>>
        /\ pc = "done" =>
            /\ ~Unwrap(ret).res.ok
            /\ ret = Some(Returned("try_stringify", Root, Err("ResourceUnloaded")))

\* download_complete_page has returned on a root that is not UTF-8.
C14_Witness ==
    /\ pc = "done"
    /\ Logged(Root, "ParseError")
    /\ ~Unwrap(ret).res.ok

\* C15: no download of the orchestrator ends with MissingResource or
\* AssetUnloaded: every Asset whose download is in the queue has a
\* resource, only HttpError and ParseError are ever reported, and the
\* unreachable!() arm is never run.
C15_UnreachableArmNeverRuns ==
    /\ pc # "panic"
    /\ \A n \in DOMAIN inflight : n \in DOMAIN assets /\ HasResource(n)
    /\ \A i \in 1..Len(log) : log[i][2] \in {"HttpError", "ParseError"}

\* The download of a grandchild of the root is awaited after a failure
\* was reported.
C15_Witness ==
    /\ pc = "loop"
    /\ Len(log) >= 1
    /\ \E n \in DOMAIN inflight :
        Len(n) = 2 /\ inflight[n] = "awaiting" /\ HasResource(n)

\* C16: every discovered node has its download pushed once, a download in
\* the queue has issued at most one GET and no parse yet, a node out of the
\* queue had exactly one GET, no node is parsed twice, and when
\* download_complete returns one GET was issued for every node.
C16_OneDownloadPerNode ==
    pc # "start" =>
        \A n \in DOMAIN assets :
            /\ calls[n].pushes = 1
            /\ calls[n].parses <= 1
            /\ IF n \in DOMAIN inflight
               THEN /\ calls[n].parses = 0
                    /\ calls[n].gets = IF inflight[n] = "new" THEN 0 ELSE 1
               ELSE /\ calls[n].gets = 1
                    /\ HasData(n) \/ Failed(n)
            /\ HasData(n) <=> calls[n].parses = 1 /\ calls[n].oks = 1

\* Two downloads are awaited at once, one node is parsed and one failed.
C16_Witness ==
    /\ pc = "loop"
    /\ \E n, m \in DOMAIN inflight :
        n # m /\ inflight[n] = "awaiting" /\ inflight[m] = "awaiting"
    /\ \E n \in DOMAIN assets \ {Root} : HasData(n)
    /\ Len(log) >= 1

\* ".txt", the suffix C17 names; the suffix line 58 tests is TXT.
DOT_TXT == <<46, 116, 120, 116>>

\* The text of the i-th recorded span of node n.
TokenOf(n, i) ==
    Slice(Unwrap(ResourceOf(n).data), ResourceOf(n).resources[i][1],
          ResourceOf(n).resources[i][2])

\* C17: every recorded token of a parsed DemoResource resolves against its
\* URL, and the mime hint of its child is text/plain exactly when the token
\* ends in ".txt", and empty otherwise.
C17_TextHintIffDotTxt ==
    \A n \in DOMAIN assets :
        (IsDemo(n) /\ has_data(ResourceOf(n))) =>
            \A i \in 1..Len(ResourceOf(n).resources) :
                /\ IsSome(UrlJoin(ResourceOf(n).url, TokenOf(n, i)))
                /\ assets[Child(n, i)].mime_hint =
                        IF EndsWith(TokenOf(n, i), DOT_TXT) THEN TEXT_PLAIN ELSE <<>>

\* The text documents of the web that refer, directly or through others,
\* to themselves, and the URLs from which such a document is reached.
\* (reach[u] is the set of URLs reached from u by one reference or more.)
OnCycle(reach, u) == u \in reach[u]

LeadsToCycle(reach, u) ==
    u \in Urls /\ (OnCycle(reach, u) \/ \E v \in reach[u] : OnCycle(reach, v))

\* The locators from which a text document that refers to itself, directly
\* or through another, is reached on the web.
CyclicUrls ==
    The({{u : u \in {v \in Urls : LeadsToCycle(reach, v)}} :
        reach \in {[u \in Urls |-> ReachFrom(links, links[u], Cardinality(Urls))] :
            links \in {[u \in Urls |-> TextLinks(u) \cap Urls]}}})

\* While download_complete runs on such a web it has not returned, the queue
\* holds the download of a text node not yet parsed from which such a
\* document is reached, and every parsed text node from which one is reached
\* has a new child for which this holds again, one level deeper.
CycleKeepsQueueFilled ==
    \A cyclic \in {CyclicUrls} :
        RootUrl \in cyclic =>
            /\ ~Returned_
            /\ pc = "loop" =>
                \E n \in DOMAIN inflight :
                    /\ IsDemo(n)
                    /\ ~has_data(ResourceOf(n))
                    /\ assets[n].url \in cyclic
            /\ \A n \in DOMAIN assets :
                (IsDemo(n) /\ has_data(ResourceOf(n))
                    /\ assets[n].url \in cyclic)
                    => \E c \in Children(n) :
                        /\ assets[c].mime_hint = TEXT_PLAIN
                        /\ assets[c].url \in cyclic
                        /\ c \in DOMAIN inflight \/ HasData(c)

\* The GETs issued so far in the run.
RECURSIVE GetsIssued(_)
GetsIssued(S) ==
    IF S = {} THEN 0
    ELSE The({calls[m].gets + GetsIssued(S \ {m}) : m \in {CHOOSE x \in S : TRUE}})

\* The tree is d levels deep along one path: every node of the path above
\* its end was fetched and parsed, two of its nodes have the same locator,
\* fetched once for each, the GET for its end at depth d was sent, and more
\* than d GETs were sent in all.
GrownTo(d) ==
    \E n \in DOMAIN inflight :
        /\ Len(n) = d
        /\ inflight[n] = "awaiting"
        /\ calls[n].gets = 1
        /\ \A k \in 0..(d - 1) :
            /\ HasData(SubSeq(n, 1, k))
            /\ calls[SubSeq(n, 1, k)].gets = 1
        /\ \E i, j \in 1..d :
            /\ i < j
            /\ assets[SubSeq(n, 1, i)].url = assets[SubSeq(n, 1, j)].url
        /\ GetsIssued(DOMAIN calls) > d

\* C18: on a web whose root reaches a text document that refers to itself,
\* directly or through another, download_complete never returns and its
\* queue never drains: it keeps parsing new nodes for the same locators
\* and fetching them again, so that for every depth the network serves, the
\* tree grows to that depth, with one more GET than levels at least, and a
\* fetch is in the queue again.
C18_CycleNeverTerminates ==
    /\ []CycleKeepsQueueFilled
    /\ (RootUrl \in CyclicUrls) ~> GrownTo(MaxServed)

\* On a web with a cycle the tree has grown to depth MaxServed along a path
\* on which one locator was fetched at every level but the first.
C18_Witness ==
    /\ RootUrl \in CyclicUrls
    /\ GrownTo(MaxServed)
    /\ \E n \in DOMAIN inflight :
        /\ Len(n) = MaxServed
        /\ \A k \in 1..(MaxServed - 1) :
            assets[SubSeq(n, 1, k)].url = assets[n].url

\* Is sp, a pair <<start, end>> of 0-based offsets, a well-formed span of
\* the text s: not empty, inside s, and with a quote right before its first
\* and right after its last character?
SpanQuoted(s, sp) ==
    /\ 0 <= sp[1] /\ sp[1] < sp[2] /\ sp[2] <= Len(s)
    /\ sp[1] >= 1
    /\ IsQuote(s[sp[1]])
    /\ sp[2] < Len(s)
    /\ IsQuote(s[sp[2] + 1])

\* C20: in every parsed DemoResource each recorded span is non-empty, lies
\* inside the stored text and has a quote character right before it and
\* right after it, outside the span; the spans are pairwise disjoint and
\* stored by strictly increasing start offset; and no later step of the
\* run (downloads of other nodes, render) changes the text or the spans.
C20_SpansWellFormed ==
    /\ [](\A n \in DOMAIN assets :
            (IsDemo(n) /\ has_data(ResourceOf(n))) =>
                \A res \in {ResourceOf(n)} :
                    /\ \A i \in 1..Len(res.resources) :
                            SpanQuoted(Unwrap(res.data), res.resources[i])
                    /\ \A i, j \in 1..Len(res.resources) :
                            i < j => /\ res.resources[i][1] < res.resources[j][1]
                                     /\ res.resources[i][2] <= res.resources[j][1])
    /\ [][\A n \in DOMAIN assets :
            (IsDemo(n) /\ has_data(ResourceOf(n))) =>
                /\ n \in DOMAIN assets'
                /\ IsSome(assets'[n].data)
                /\ Unwrap(assets'[n].data).data = ResourceOf(n).data
                /\ Unwrap(assets'[n].data).resources = ResourceOf(n).resources]_vars

\* The tree was rendered with success after the run: the root recorded two
\* spans and one of its children, a text too, recorded one.
C20_Witness ==
    /\ pc = "done"
    /\ LastReturn("try_stringify", Root)
    /\ Unwrap(ret).res.ok
    /\ IsDemo(Root)
    /\ Len(ResourceOf(Root).resources) >= 2
    /\ \E c \in Children(Root) :
            /\ IsDemo(c)
            /\ has_data(ResourceOf(c))
            /\ Len(ResourceOf(c).resources) >= 1

(***************************************************************************)
(* Properties of direct calls of auto_select_resource_type and download.   *)
(***************************************************************************)
\* This step is the return of a call of `op` on node n.
Returns(op, n) ==
    /\ ret' # None
    /\ Unwrap(ret').op = op
    /\ Unwrap(ret').node = n
    /\ \/ ret = None
       \/ Unwrap(ret).op # op
       \/ Unwrap(ret).node # n
       \/ Unwrap(ret).res # Unwrap(ret').res

\* An attached resource stays attached, the same resource: its kind and URL
\* stay, and once it has data its data and children stay.
StaysAttached(n) ==
    HasResource(n) =>
        /\ IsSome(assets'[n].data)
        /\ Unwrap(assets'[n].data).kind = ResourceOf(n).kind
        /\ Unwrap(assets'[n].data).url = ResourceOf(n).url
        /\ has_data(ResourceOf(n)) => assets'[n].data = assets[n].data

\* "text/plain" in any mix of upper and lower case.
IsTextPlainAnyCase(h) ==
    /\ Len(h) = Len(TEXT_PLAIN)
    /\ \A i \in 1..Len(h) :
        \/ h[i] = TEXT_PLAIN[i]
        \/ TEXT_PLAIN[i] \in 97..122 /\ h[i] = TEXT_PLAIN[i] - 32

\* C11, as claimed: a resource, once attached, is never replaced or
\* detached; auto_select_resource_type on an Asset with a resource changes
\* nothing; on an Asset without one it attaches a DemoResource when the
\* mime hint is text/plain and an InertResource for any other hint.
C11_SelectByExactHint ==
    [][\A n \in DOMAIN assets :
        /\ StaysAttached(n)
        /\ (Returns("auto_select_resource_type", n) /\ HasResource(n))
                => assets' = assets
        /\ (Returns("auto_select_resource_type", n) /\ ~HasResource(n))
                => assets' = [assets EXCEPT ![n].data =
                        Some(IF assets[n].mime_hint = TEXT_PLAIN
                             THEN NewDemoResource(assets[n].url)
                             ELSE NewInertResource)]]_vars

\* C11, amended: a resource, once attached, is never replaced or detached;
\* auto_select_resource_type on an Asset with a resource changes nothing;
\* on an Asset without one it attaches a DemoResource when the mime hint
\* is text/plain in any letter case (TEXT/PLAIN included) and an
\* InertResource for every other hint, the empty one included.
C11_SelectByHintAnyCase ==
    [][\A n \in DOMAIN assets :
        /\ StaysAttached(n)
        /\ (Returns("auto_select_resource_type", n) /\ HasResource(n))
                => assets' = assets
        /\ (Returns("auto_select_resource_type", n) /\ ~HasResource(n))
                => assets' = [assets EXCEPT ![n].data =
                        Some(IF IsTextPlainAnyCase(assets[n].mime_hint)
                             THEN NewDemoResource(assets[n].url)
                             ELSE NewInertResource)]]_vars

\* auto_select_resource_type has just returned on the first Asset, whose
\* hint is TEXT/PLAIN and whose DemoResource already has data and children.
C11_Witness ==
    /\ LastReturn("auto_select_resource_type", Root)
    /\ assets[Root].mime_hint = TEXT_PLAIN_UPPER
    /\ IsDemo(Root)
    /\ has_data(ResourceOf(Root))
    /\ Len(ResourceOf(Root).resources) = 2

\* C12: download on an Asset without a resource returns MissingResource,
\* issues no GET and leaves the Asset, and every other, as it was.
C12_DownloadNeedsResource ==
    [][\A n \in DOMAIN inflight :
        (pc = "call" /\ inflight[n] = "new" /\ ~HasResource(n))
            => /\ Returns("download", n)
               /\ Unwrap(ret').res = Err("MissingResource")
               /\ assets' = assets
               /\ calls' = calls
               /\ pc' = "api"]_vars

\* download has just returned MissingResource on a discovered child that
\* has no resource.
C12_Witness ==
    \E n \in DOMAIN assets \ {Root} :
        /\ pc = "api"
        /\ LastReturn("download", n)
        /\ Unwrap(ret).res = Err("MissingResource")
        /\ ~HasResource(n)
        /\ calls[n].gets = 0

\* C13: download on an Asset whose resource has data issues no GET and no
\* parse, changes nothing in the tree, and returns the children of the
\* resource as needed_assets gives them, in their order.
C13_DownloadSkipsLoaded ==
    [][\A n \in DOMAIN inflight :
        (pc = "call" /\ inflight[n] = "new" /\ HasResource(n)
            /\ has_data(ResourceOf(n)))
            => /\ Returns("download", n)
               /\ Unwrap(ret').res =
                    Ok([i \in 1..Len(ResourceOf(n).resources) |-> Child(n, i)])
               /\ assets' = assets
               /\ calls' = calls
               /\ pc' = "api"]_vars

\* download has just returned the two children of the first Asset a second
\* time: one GET and one parse were made for it, and its first child got
\* its resource between the two calls.
C13_Witness ==
    /\ pc = "api"
    /\ IsDemo(Root)
    /\ LastReturn("download", Root)
    /\ Unwrap(ret).res = Ok(<<Child(Root, 1), Child(Root, 2)>>)
    /\ HasResource(Child(Root, 1))
    /\ calls[Root].gets = 1
    /\ calls[Root].parses = 1

=============================================================================
